---- MODULE Spec2Model ----
(***************************************************************************)
(* A model of src/png_utils.js (class png): parseChunks, reverseFiltering  *)
(* and subimage, each as a state machine over its own local variables.     *)
(* Three specifications share the module: SpecParse, SpecFilter, SpecTiles.*)
(***************************************************************************)
EXTENDS Integers, Sequences, FiniteSets, TLC

VARIABLES
    \* ---- parseChunks (src/png_utils.js:58-108)
    made,          \* input construction: the chunks written into the buffer
    cut,           \* input construction: bytes removed from the buffer's end
    bytes,         \* the buffer (arrayBuffer / dataView / bytes), 0-based in JS
    pos,           \* let pos
    chunks,        \* let chunks
    \* ---- reverseFiltering (src/png_utils.js:192-370)
    reference,     \* input construction: the pixel grid that was filtered
    heightPixels,  \* input construction: number of scanlines written
    arrayBuffer,   \* the filtered stream
    widthPixels,   \* this.data[0].chunkInfo.widthPixels
    i,             \* the loop index
    filterByte,    \* let filterByte
    res,           \* let res
    lineNum,       \* let lineNum
    tempArr,       \* let tempArr
    pixelCount,    \* let pixelCount
    \* ---- subimage (src/png_utils.js:379-424)
    imageDataBuffer, \* the pixel grid
    tileSize,      \* { x, y }
    margins,       \* the margins object: x, y, xMargin, yMargin
    separation,
    options,       \* { ignoredColour }
    phase,         \* "validate" (lines 381-395) | "loop" (lines 396-420)
    xOffset,       \* let xOffset
    yOffset,       \* let yOffset
    tileset,       \* let tileset
    row,           \* the outer loop index
    col,           \* the inner loop index
    returnValue,   \* what the caller receives
    \* ---- shared by the three operations
    outcome,       \* "running" | "returned" | "threw"
    error          \* the error thrown, "" when none

parseVars == <<made, bytes, pos, chunks>>
filterVars == <<reference, heightPixels, arrayBuffer, widthPixels, i, filterByte,
                res, lineNum, tempArr, pixelCount>>

tileVars == <<imageDataBuffer, tileSize, margins, separation, options, phase,
              xOffset, yOffset, tileset, row, col, returnValue>>

vars == <<parseVars, filterVars, tileVars, cut, outcome, error>>

----------------------------------------------------------------------------
(* Bounds of the model *)

MaxChunks == 2
MaxCut == 13
MaxWidth == 2
MaxHeight == 2
MaxShort == 5
MaxGridWidth == 3
MaxGridHeight == 3
MaxTile == 2
MaxMargin == 1
MaxSeparation == 1

\* data lengths of the chunks written into a buffer
DataLens == {0, 1, 3, 4}
\* what is added to a chunk's true data length in its length word
Lies == {0, 1}

----------------------------------------------------------------------------
(* JavaScript helpers *)

Min(a, b) == IF a <= b THEN a ELSE b

\* Array.prototype.slice(from, to) with 0 <= from: 0-based, half-open, clamped
Slice(s, from, to) == SubSeq(s, from + 1, Min(to, Len(s)))

RECURSIVE Concat(_)
Concat(ss) == IF ss = <<>> THEN <<>> ELSE Head(ss) \o Concat(Tail(ss))

\* the variables of an operation that is not the one running
FilterIdle ==
    /\ reference = <<>>
    /\ heightPixels = 0
    /\ arrayBuffer = <<>>
    /\ widthPixels = 0
    /\ i = 0
    /\ filterByte = 0
    /\ res = <<>>
    /\ lineNum = 0
    /\ tempArr = <<>>
    /\ pixelCount = 0

\* the value undefined, as a number-typed property or variable
Undefined == -2

\* a return value: undefined, or a list of tiles
NoValue == [defined |-> FALSE, tiles |-> <<>>]

TilesIdle ==
    /\ imageDataBuffer = <<>>
    /\ tileSize = [x |-> 0, y |-> 0]
    /\ margins = [x |-> 0, y |-> 0, xMargin |-> 0, yMargin |-> 0]
    /\ separation = 0
    /\ options = [ignoredColour |-> <<>>]
    /\ phase = ""
    /\ xOffset = 0
    /\ yOffset = 0
    /\ tileset = <<>>
    /\ row = 0
    /\ col = 0
    /\ returnValue = NoValue

ParseIdle ==
    /\ made = <<>>
    /\ bytes = <<>>
    /\ pos = 0
    /\ chunks = <<>>

----------------------------------------------------------------------------
(* parseChunks *)

\* DataView.getUint32(p) throws RangeError unless p .. p+3 lie in the buffer
CanGetUint32(buf, p) == p >= 0 /\ p + 4 <= Len(buf)

\* mutant of GetUint32: the bytes taken little-endian
GetUint32LittleEndian(buf, p) ==
    buf[p + 4] * 16777216 + buf[p + 3] * 65536 + buf[p + 2] * 256 + buf[p + 1]

\* DataView.getUint32(p): big-endian
GetUint32(buf, p) ==
    buf[p + 1] * 16777216 + buf[p + 2] * 65536 + buf[p + 3] * 256 + buf[p + 4]

\* TextDecoder("utf-8").decode on the bytes of a type code: an ASCII byte
\* decodes to its own code point, a byte that starts no valid sequence to
\* U+FFFD
Utf8Decode(bs) == [k \in 1..Len(bs) |-> IF bs[k] < 128 THEN bs[k] ELSE 65533]

IHDR == <<73, 72, 68, 82>>
IDAT == <<73, 68, 65, 84>>
IEND == <<73, 69, 78, 68>>
TypeCodes == {IHDR, IDAT, IEND}

Signature == <<137, 80, 78, 71, 13, 10, 26, 10>>

\* the chunk record pushed at lines 85-103; chunkInfo is <<>> when the
\* record has no chunkInfo property
ChunkRecord(buf, fourCC, size, offset, crc) ==
    [fourCC |-> fourCC,
     size |-> size,
     data |-> Slice(buf, offset, offset + size),
     offset |-> offset,
     crc |-> crc,
     chunkInfo |-> IF fourCC = IHDR
                   THEN <<[widthPixels |-> GetUint32(buf, 16),
                           heightPixels |-> GetUint32(buf, 20)]>>
                   ELSE <<>>]

\* the reads of one loop iteration (lines 74-93), in order; FALSE when one
\* of them throws RangeError
IterationReads(buf, p) ==
    /\ CanGetUint32(buf, p)
    /\ CanGetUint32(buf, p + 8 + GetUint32(buf, p))
    /\ Utf8Decode(Slice(buf, p + 4, p + 8)) = IHDR
          => CanGetUint32(buf, 16) /\ CanGetUint32(buf, 20)

\* input construction: the bytes of the n-th chunk written into a buffer
DataOf(n, len) == [j \in 1..len |-> 16 * n + j]
CrcOf(n) == <<0, 0, 0, n>>
ChunkBytes(c, n) ==
    <<0, 0, 0, c.len + c.lie>> \o c.type \o DataOf(n, c.len) \o CrcOf(n)
BufferOf(cs) == Signature \o Concat([n \in 1..Len(cs) |-> ChunkBytes(cs[n], n)])

ChunkSpecs == [type : TypeCodes, len : DataLens, lie : Lies]

InitParse ==
    /\ made \in UNION {[1..k -> ChunkSpecs] : k \in 0..MaxChunks}
    /\ cut \in 0..MaxCut
    /\ cut <= Len(BufferOf(made))
    /\ bytes = SubSeq(BufferOf(made), 1, Len(BufferOf(made)) - cut)
    /\ pos = 8
    /\ chunks = <<>>
    /\ outcome = "running"
    /\ error = ""
    /\ FilterIdle
    /\ TilesIdle

\* one iteration of the while loop (lines 73-105) that completes
ParseChunk ==
    /\ outcome = "running"
    /\ pos < Len(bytes)
    /\ IterationReads(bytes, pos)
    /\ LET size == GetUint32(bytes, pos)
           fourCC == Utf8Decode(Slice(bytes, pos + 4, pos + 8))
           offset == pos + 8
           crc == GetUint32(bytes, offset + size)
       IN /\ pos' = offset + size + 4
          /\ chunks' = Append(chunks, ChunkRecord(bytes, fourCC, size, offset, crc))
    /\ UNCHANGED <<made, cut, bytes, outcome, error, filterVars, tileVars>>

\* mutant of ParseThrow: the RangeError is swallowed and the chunks parsed
\* so far are returned
ParseThrowSwallowed ==
    /\ outcome = "running"
    /\ pos < Len(bytes)
    /\ ~IterationReads(bytes, pos)
    /\ outcome' = "returned"
    /\ UNCHANGED <<made, cut, bytes, pos, chunks, error, filterVars, tileVars>>

\* one iteration in which a getUint32 throws: the promise is rejected
ParseThrow ==
    /\ outcome = "running"
    /\ pos < Len(bytes)
    /\ ~IterationReads(bytes, pos)
    /\ outcome' = "threw"
    /\ error' = "RangeError"
    /\ UNCHANGED <<made, cut, bytes, pos, chunks, filterVars, tileVars>>

\* the loop condition fails: return { chunks: chunks } (line 107)
ParseReturn ==
    /\ outcome = "running"
    /\ pos >= Len(bytes)
    /\ outcome' = "returned"
    /\ UNCHANGED <<made, cut, bytes, pos, chunks, error, filterVars, tileVars>>

NextParse == ParseChunk \/ ParseThrow \/ ParseReturn

SpecParse == InitParse /\ [][NextParse]_vars

----------------------------------------------------------------------------
(* reverseFiltering *)

\* an element of a row of res: the filter method integer (line 214) or a
\* pixel array (the pushes of lines 222-362)
Num(n) == [isPixel |-> FALSE, v |-> <<n>>]
Px(v) == [isPixel |-> TRUE, v |-> v]

\* the Number NaN, as a channel value or a tile count (a negative tile count
\* ends the loops of subimage just as NaN does)
NaN == -1

\* const widthBytes (line 195)
widthBytes == widthPixels * 4 + 1

\* if (ret >= 256) ret -= 256
Wrap(ret) == IF ret >= 256 THEN ret - 256 ELSE ret

\* res[ln] = row
SetRow(r, ln, line) ==
    IF ln + 1 <= Len(r) THEN [r EXCEPT ![ln + 1] = line] ELSE Append(r, line)

\* line[k], a pixel array
Elem(line, k) == line[k + 1].v

\* the start of a scanline (line 206)
AtLineStart == i % widthBytes = 0 \/ i = 0

\* i, filterByte, pixelCount and lineNum after lines 206-212
I1 == IF AtLineStart THEN i + 1 ELSE i
FilterByte1 == IF AtLineStart THEN arrayBuffer[i + 1] ELSE filterByte
PixelCount1 == IF AtLineStart THEN 0 ELSE pixelCount
LineNum1 == IF AtLineStart THEN lineNum + 1 ELSE lineNum

\* res[lineNum] === undefined || res[lineNum].length === 0 (line 213)
RowMissing == LineNum1 >= Len(res) \/ Len(res[LineNum1 + 1]) = 0

\* res and tempArr after lines 206-216
Res1 == IF RowMissing THEN SetRow(res, LineNum1, <<Num(FilterByte1)>>) ELSE res
TempArr1 ==
    IF RowMissing THEN Slice(arrayBuffer, I1, I1 + 4)
    ELSE IF AtLineStart THEN Slice(arrayBuffer, i, i + 4)
    ELSE tempArr

\* curPixel (line 217)
CurPixel == Slice(arrayBuffer, I1, I1 + 4)

CurRow == Res1[LineNum1 + 1]
PrevRow == Res1[LineNum1]

\* i > widthBytes * (lineNum) + 3 (lines 226, 263, 285)
NotFirstInRow == I1 > widthBytes * LineNum1 + 3

\* case 1 (lines 226-241): the pixel pushed, which is also the new tempArr
SubPixel ==
    IF NotFirstInRow
    THEN [c \in 1..Len(CurPixel) |-> Wrap(CurPixel[c] + TempArr1[c])]
    ELSE CurPixel

\* case 2 (lines 245-258): the pixel pushed
UpPixel ==
    IF LineNum1 > 0
    THEN [c \in 1..Len(CurPixel) |->
             Wrap(CurPixel[c] + Elem(PrevRow, PixelCount1 + 1)[c])]
    ELSE CurPixel

\* ~~((0 + arr) / 2), line 288: the number 0 and the array arr concatenate
\* to the string "0" + arr.join(","), which is a number only when arr has
\* at most one element; ~~NaN is 0
HalfOfZeroPlusArray(arr) ==
    IF Len(arr) = 1 /\ arr[1] # NaN THEN arr[1] \div 2 ELSE 0

\* case 3, the first row (lines 276-284): res[lineNum][pixelCount + 1] is
\* read for each channel of curPixel and is undefined when the row has no
\* such element: TypeError
AverageTypeError ==
    /\ LineNum1 = 0
    /\ Len(CurPixel) > 0
    /\ PixelCount1 + 1 >= Len(CurRow)

\* case 3 (lines 263-305): the pixel pushed first
AveragePixel ==
    IF LineNum1 > 0 /\ NotFirstInRow
    THEN [c \in 1..Len(CurPixel) |->
             Wrap(CurPixel[c] + ((Elem(CurRow, PixelCount1 + 1)[c]
                                  + Elem(PrevRow, PixelCount1 + 1)[c]) \div 2))]
    ELSE IF ~(LineNum1 > 0)
    THEN [c \in 1..Len(CurPixel) |->
             Wrap(CurPixel[c] + ((Elem(CurRow, PixelCount1 + 1)[c] + 0) \div 2))]
    ELSE [c \in 1..Len(CurPixel) |->
             Wrap(CurPixel[c] + HalfOfZeroPlusArray(Elem(PrevRow, PixelCount1 + 1)))]

\* case 3: the elements pushed; outside the first branch curPixel is pushed
\* as well (line 307)
AveragePushed ==
    IF LineNum1 > 0 /\ NotFirstInRow
    THEN <<Px(AveragePixel)>>
    ELSE <<Px(AveragePixel), Px(CurPixel)>>

RECURSIVE Sum(_)
\* arr.reduce((acc, curr) => acc + curr)
Sum(arr) == IF Len(arr) = 1 THEN arr[1] ELSE arr[1] + Sum(Tail(arr))

Zero4 == <<0, 0, 0, 0>>

\* case 4 (lines 313-331): the neighbour pixels a, b, c
PaethNeighbours ==
    IF LineNum1 > 0 /\ PixelCount1 # 0
    THEN [a |-> Elem(CurRow, PixelCount1),
          b |-> Elem(PrevRow, PixelCount1 + 1),
          c |-> Elem(PrevRow, PixelCount1)]
    ELSE IF PixelCount1 = 0 /\ LineNum1 > 0
    THEN [a |-> Zero4, b |-> Elem(PrevRow, PixelCount1 + 1), c |-> Zero4]
    ELSE IF PixelCount1 # 0 /\ ~(LineNum1 > 0)
    THEN [a |-> Elem(CurRow, PixelCount1), b |-> Zero4, c |-> Zero4]
    ELSE [a |-> Zero4, b |-> Zero4, c |-> Zero4]

Abs(n) == IF n < 0 THEN 0 - n ELSE n

\* case 4 (lines 334-359): the neighbour pixel added to curPixel, chosen on
\* the sums of the channels
PaethRef(a, b, c) ==
    LET p == Sum(a) + Sum(b) - Sum(c)
        pa == Abs(p - Sum(a))
        pb == Abs(p - Sum(b))
        pc == Abs(p - Sum(c))
    IN IF pa <= pb /\ pa <= pc THEN a
       ELSE IF pb <= pc THEN b
       ELSE c

\* case 4 (lines 342-358): for (j = 0; j < 4; j++) ref = ref[j] + curPixel[j];
\* a channel curPixel lacks is undefined and the sum NaN
PaethPixel ==
    LET n == PaethNeighbours
        ref == PaethRef(n.a, n.b, n.c)
    IN [j \in 1..4 |->
           IF j <= Len(CurPixel) THEN Wrap(ref[j] + CurPixel[j]) ELSE NaN]

\* the end of an iteration that did not throw: the pushes, pixelCount++
\* (line 367) and i += 4 (line 204)
Iterate(pushed, newTempArr) ==
    /\ res' = [Res1 EXCEPT ![LineNum1 + 1] = @ \o pushed]
    /\ tempArr' = newTempArr
    /\ i' = I1 + 4
    /\ pixelCount' = PixelCount1 + 1
    /\ lineNum' = LineNum1
    /\ filterByte' = FilterByte1
    /\ UNCHANGED <<reference, heightPixels, arrayBuffer, widthPixels, cut,
                   outcome, error, parseVars, tileVars>>

\* the iteration throws inside the switch, after lines 206-217
Throw(e) ==
    /\ outcome' = "threw"
    /\ error' = e
    /\ res' = Res1
    /\ tempArr' = TempArr1
    /\ i' = I1
    /\ pixelCount' = PixelCount1
    /\ lineNum' = LineNum1
    /\ filterByte' = FilterByte1
    /\ UNCHANGED <<reference, heightPixels, arrayBuffer, widthPixels, cut,
                   parseVars, tileVars>>

InLoop == outcome = "running" /\ i < Len(arrayBuffer)

\* case 0 (lines 221-223)
FilterNone ==
    /\ InLoop
    /\ FilterByte1 = 0
    /\ Iterate(<<Px(CurPixel)>>, TempArr1)

\* case 1 (lines 225-242)
FilterSub ==
    /\ InLoop
    /\ FilterByte1 = 1
    /\ Iterate(<<Px(SubPixel)>>, SubPixel)

\* case 2 (lines 244-259)
FilterUp ==
    /\ InLoop
    /\ FilterByte1 = 2
    /\ Iterate(<<Px(UpPixel)>>, IF LineNum1 > 0 THEN TempArr1 ELSE CurPixel)

\* case 3 (lines 261-309)
FilterAverage ==
    /\ InLoop
    /\ FilterByte1 = 3
    /\ ~AverageTypeError
    /\ Iterate(AveragePushed,
               IF LineNum1 > 0 /\ NotFirstInRow THEN TempArr1 ELSE CurPixel)

\* case 3, reading a channel of undefined (line 278)
FilterAverageThrow ==
    /\ InLoop
    /\ FilterByte1 = 3
    /\ AverageTypeError
    /\ Throw("TypeError")

\* case 4 (lines 311-363)
FilterPaeth ==
    /\ InLoop
    /\ FilterByte1 = 4
    /\ Iterate(<<Px(PaethPixel)>>, TempArr1)

\* mutant of FilterUnexpected: the default case breaks out of the switch
\* and the loop goes on
FilterUnexpectedSkipped ==
    /\ InLoop
    /\ FilterByte1 \notin 0..4
    /\ Iterate(<<>>, TempArr1)

\* default (lines 364-365)
FilterUnexpected ==
    /\ InLoop
    /\ FilterByte1 \notin 0..4
    /\ Throw("Unexpected filter byte.")

\* the loop condition fails: return res (line 369)
FilterReturn ==
    /\ outcome = "running"
    /\ i >= Len(arrayBuffer)
    /\ outcome' = "returned"
    /\ UNCHANGED <<filterVars, cut, error, parseVars, tileVars>>

NextFilter ==
    \/ FilterNone
    \/ FilterSub
    \/ FilterUp
    \/ FilterAverage
    \/ FilterAverageThrow
    \/ FilterPaeth
    \/ FilterUnexpected
    \/ FilterReturn

(* input construction: a reference grid, filtered with the forward PNG
   filters, one filter byte per scanline *)

Palette == << <<10, 0, 0, 255>>, <<0, 10, 0, 255>>, <<200, 100, 50, 0>> >>

\* the reference grid of pattern (seed, stride): pixel k in row-major order
\* is Palette[(seed + stride * k) mod 3]
PatternGrid(w, h, seed, stride) ==
    [r \in 1..h |-> [k \in 1..w |->
        Palette[((seed + stride * ((r - 1) * w + (k - 1))) % Len(Palette)) + 1]]]

\* the Paeth predictor of the PNG specification, on one channel
PaethPredictor(a, b, c) ==
    LET p == a + b - c
        pa == Abs(p - a)
        pb == Abs(p - b)
        pc == Abs(p - c)
    IN IF pa <= pb /\ pa <= pc THEN a
       ELSE IF pb <= pc THEN b
       ELSE c

\* the prediction of filter type t from the neighbour bytes a (left),
\* b (above), c (above left)
Predict(t, a, b, c) ==
    CASE t = 1 -> a
      [] t = 2 -> b
      [] t = 3 -> (a + b) \div 2
      [] t = 4 -> PaethPredictor(a, b, c)
      [] OTHER -> 0

\* channel j of the pixel at row r, column k of grid g; 0 outside the grid
ChannelAt(g, r, k, j) == IF r >= 1 /\ k >= 1 THEN g[r][k][j] ELSE 0

\* the forward filter of one scanline: the filter byte, then per channel
\* (orig - prediction) mod 256
FilteredLine(g, r, t) ==
    <<t>> \o Concat([k \in 1..Len(g[r]) |-> [j \in 1..4 |->
        (g[r][k][j] + 256 - Predict(t, ChannelAt(g, r, k - 1, j),
                                       ChannelAt(g, r - 1, k, j),
                                       ChannelAt(g, r - 1, k - 1, j))) % 256]])

ForwardFilter(g, types) == Concat([r \in 1..Len(g) |-> FilteredLine(g, r, types[r])])

FilterBytes == 0..5

InitFilter ==
    /\ widthPixels \in 1..MaxWidth
    /\ heightPixels \in 1..MaxHeight
    /\ \E seed \in 0..2, stride \in 0..2 :
          reference = PatternGrid(widthPixels, heightPixels, seed, stride)
    /\ cut \in 0..MaxShort
    /\ \E types \in [1..heightPixels -> FilterBytes] :
          /\ cut <= Len(ForwardFilter(reference, types))
          /\ arrayBuffer = SubSeq(ForwardFilter(reference, types), 1,
                                  Len(ForwardFilter(reference, types)) - cut)
    /\ i = 0
    /\ filterByte = 0
    /\ res = << <<>> >>
    /\ lineNum = -1
    /\ tempArr = <<>>
    /\ pixelCount = 0
    /\ outcome = "running"
    /\ error = ""
    /\ ParseIdle
    /\ TilesIdle

SpecFilter == InitFilter /\ [][NextFilter]_vars

----------------------------------------------------------------------------
(* subimage *)

\* the first validation of lines 384-395 that fails, "" when none does
\* (imageDataBuffer is an array: line 381 passes)
ValidationError ==
    IF tileSize.x <= 0 \/ tileSize.y <= 0 THEN "Invalid tileSize"
    ELSE IF margins.x = Undefined \/ margins.y = Undefined THEN "Invalid margins"
    ELSE IF separation < 0 THEN "Invalid separation"
    ELSE IF Len(options.ignoredColour) # 4 THEN "Invalid options"
    ELSE ""

\* const { xMargin, yMargin } = margins (line 396)
xMargin == margins.xMargin
yMargin == margins.yMargin

\* const { x: tileWidth, y: tileHeight } = tileSize (line 397)
tileWidth == tileSize.x
tileHeight == tileSize.y

\* Math.floor((length - margin) / (tile + separation)), NaN when the margin
\* is undefined
FloorQuotient(length, margin, step) ==
    IF margin = Undefined THEN NaN ELSE (length - margin) \div step

\* lines 404-405
numRows ==
    IF tileHeight + separation > 0
    THEN FloorQuotient(Len(imageDataBuffer), yMargin, tileHeight + separation)
    ELSE 0
numCols ==
    IF tileWidth + separation > 0
    THEN FloorQuotient(Len(imageDataBuffer[1]), xMargin, tileWidth + separation)
    ELSE 0

\* n < bound, false when bound is NaN
LessThan(n, bound) == bound # NaN /\ n < bound

\* lines 410-413: imageDataBuffer[i] is undefined for some row of the tile
TileTypeError ==
    \E r \in yOffset..(yOffset + tileHeight - 1) :
        r < 0 \/ r >= Len(imageDataBuffer)

\* lines 409-413: the tile at (xOffset, yOffset)
Tile ==
    [r \in 1..tileHeight |->
        Slice(imageDataBuffer[yOffset + r], xOffset, xOffset + tileWidth)]

\* a validation fails (lines 384-395)
SubimageInvalid ==
    /\ outcome = "running"
    /\ phase = "validate"
    /\ ValidationError # ""
    /\ outcome' = "threw"
    /\ error' = ValidationError
    /\ UNCHANGED <<tileVars, cut, parseVars, filterVars>>

\* the validations pass (lines 381-405)
SubimageEnter ==
    /\ outcome = "running"
    /\ phase = "validate"
    /\ ValidationError = ""
    /\ phase' = "loop"
    /\ xOffset' = xMargin
    /\ yOffset' = yMargin
    /\ tileset' = <<>>
    /\ row' = 0
    /\ col' = 0
    /\ UNCHANGED <<imageDataBuffer, tileSize, margins, separation, options,
                   returnValue, outcome, error, cut, parseVars, filterVars>>

InTileLoop ==
    /\ outcome = "running"
    /\ phase = "loop"
    /\ LessThan(row, numRows)
    /\ LessThan(col, numCols)

\* one iteration of the inner loop (lines 408-416)
SubimageTile ==
    /\ InTileLoop
    /\ ~TileTypeError
    /\ tileset' = Append(tileset, Tile)
    /\ xOffset' = xOffset + tileWidth + separation
    /\ col' = col + 1
    /\ UNCHANGED <<imageDataBuffer, tileSize, margins, separation, options,
                   phase, yOffset, row, returnValue, outcome, error, cut,
                   parseVars, filterVars>>

\* the inner loop throws and the catch rethrows (lines 421-423)
SubimageTileThrow ==
    /\ InTileLoop
    /\ TileTypeError
    /\ outcome' = "threw"
    /\ error' = "Error trying to get subimage."
    /\ UNCHANGED <<tileVars, cut, parseVars, filterVars>>

\* the inner loop ends (lines 418-419)
SubimageNextRow ==
    /\ outcome = "running"
    /\ phase = "loop"
    /\ LessThan(row, numRows)
    /\ ~LessThan(col, numCols)
    /\ xOffset' = xMargin
    /\ yOffset' = yOffset + tileHeight + separation
    /\ row' = row + 1
    /\ col' = 0
    /\ UNCHANGED <<imageDataBuffer, tileSize, margins, separation, options,
                   phase, tileset, returnValue, outcome, error, cut,
                   parseVars, filterVars>>

\* the outer loop ends and the function ends without a return statement
\* (line 424): the caller receives undefined
SubimageReturn ==
    /\ outcome = "running"
    /\ phase = "loop"
    /\ ~LessThan(row, numRows)
    /\ outcome' = "returned"
    /\ returnValue' = NoValue
    /\ UNCHANGED <<imageDataBuffer, tileSize, margins, separation, options,
                   phase, xOffset, yOffset, tileset, row, col, error, cut,
                   parseVars, filterVars>>

NextTiles ==
    \/ SubimageInvalid
    \/ SubimageEnter
    \/ SubimageTile
    \/ SubimageTileThrow
    \/ SubimageNextRow
    \/ SubimageReturn

(* input construction: the arguments of a call *)

\* the margins argument: omitted (the default of line 379), { x, y },
\* { x, y, xMargin, yMargin }
MarginsArguments ==
    {[x |-> Undefined, y |-> Undefined, xMargin |-> 0, yMargin |-> 0]}
    \cup {[x |-> mx, y |-> my, xMargin |-> Undefined, yMargin |-> Undefined] :
              mx \in 0..MaxMargin, my \in 0..MaxMargin}
    \cup {[x |-> mx, y |-> my, xMargin |-> mx, yMargin |-> my] :
              mx \in 0..MaxMargin, my \in (0 - 1)..MaxMargin}

IgnoredColours == {Zero4, Palette[1], <<1, 2, 3>>}

InitTiles ==
    /\ \E w \in 1..MaxGridWidth, h \in 1..MaxGridHeight, seed \in 0..2 :
          imageDataBuffer = PatternGrid(w, h, seed, 1)
    /\ tileSize \in [x : 0..MaxTile, y : 0..MaxTile]
    /\ margins \in MarginsArguments
    /\ separation \in (0 - 1)..MaxSeparation
    /\ options \in [ignoredColour : IgnoredColours]
    /\ phase = "validate"
    /\ xOffset = 0
    /\ yOffset = 0
    /\ tileset = <<>>
    /\ row = 0
    /\ col = 0
    /\ returnValue = NoValue
    /\ cut = 0
    /\ outcome = "running"
    /\ error = ""
    /\ ParseIdle
    /\ FilterIdle

SpecTiles == InitTiles /\ [][NextTiles]_vars

----------------------------------------------------------------------------
(* Claims about parseChunks, checked under SpecParse *)

ParseDone == outcome # "running"

\* the buffer is the signature followed by Len(made) complete chunks
WellFormedInput == cut = 0 /\ \A n \in 1..Len(made) : made[n].lie = 0

\* the big-endian 32-bit value at 0-based offset p of the buffer
BigEndianAt(p) ==
    ((bytes[p + 1] * 256 + bytes[p + 2]) * 256 + bytes[p + 3]) * 256 + bytes[p + 4]

RECURSIVE ChunkStart(_)
\* 0-based position of the n-th written chunk's length word
ChunkStart(n) == IF n = 1 THEN 8 ELSE ChunkStart(n - 1) + 12 + made[n - 1].len

\* the n-th record carries the n-th written chunk
RecordMatches(n) ==
    /\ chunks[n].fourCC = made[n].type
    /\ chunks[n].size = made[n].len
    /\ chunks[n].data = SubSeq(bytes, ChunkStart(n) + 9, ChunkStart(n) + 8 + made[n].len)
    /\ chunks[n].crc = BigEndianAt(ChunkStart(n) + 8 + made[n].len)
    /\ chunks[n].offset = ChunkStart(n) + 8
    /\ made[n].type = IHDR =>
          /\ Len(chunks[n].chunkInfo) = 1
          /\ chunks[n].chunkInfo[1].widthPixels = BigEndianAt(16)
          /\ chunks[n].chunkInfo[1].heightPixels = BigEndianAt(20)

ParsedAsWritten ==
    /\ outcome = "returned"
    /\ Len(chunks) = Len(made)
    /\ \A n \in 1..Len(made) : RecordMatches(n)
    /\ pos = Len(bytes)

\* C1 as stated: every buffer of the signature and k >= 0 complete chunks
\* parses to exactly those k records, in order, with pos at the buffer's end
C1_AsStated == (ParseDone /\ WellFormedInput) => ParsedAsWritten

\* C1 amended: the same, for the buffers that hold no IHDR chunk or are at
\* least 24 bytes long (the IHDR record reads offsets 16..23 of the buffer);
\* a shorter buffer with an IHDR chunk makes parseChunks throw
C1_ParsedAsWritten ==
    (ParseDone /\ WellFormedInput)
        => IF (\E n \in 1..Len(made) : made[n].type = IHDR) /\ Len(bytes) < 24
           THEN outcome = "threw"
           ELSE ParsedAsWritten

\* C1 witness: a two-chunk buffer with an IHDR and data bytes was parsed
C1_Witness ==
    /\ outcome = "returned"
    /\ WellFormedInput
    /\ Len(made) = 2
    /\ made[1].type = IHDR /\ made[1].len > 0
    /\ made[2].type = IDAT /\ made[2].len > 0

RECURSIVE ReadsPastEnd(_)
\* walking the chunks from 0-based position p, some chunk's length word,
\* type code, data span or CRC does not fit in the buffer
ReadsPastEnd(p) ==
    IF p >= Len(bytes) THEN FALSE
    ELSE IF p + 4 > Len(bytes) THEN TRUE
    ELSE IF p + 12 + BigEndianAt(p) > Len(bytes) THEN TRUE
    ELSE ReadsPastEnd(p + 12 + BigEndianAt(p))

\* C6: a buffer in which some chunk's length word, type code, data span or
\* CRC reaches past the end makes parseChunks throw, and every chunk of a
\* returned list satisfies offset + size + 4 <= buffer length
C6_Malformed ==
    ParseDone =>
        /\ ReadsPastEnd(8) => outcome = "threw"
        /\ outcome = "returned" =>
              \A n \in 1..Len(chunks) :
                  chunks[n].offset + chunks[n].size + 4 <= Len(bytes)

\* C6 witness: parseChunks threw on a truncated buffer after it had
\* already parsed a chunk
C6_Witness ==
    /\ outcome = "threw"
    /\ cut > 0
    /\ Len(chunks) >= 1
    /\ ReadsPastEnd(8)

----------------------------------------------------------------------------
(* Claims about reverseFiltering, checked under SpecFilter *)

FilterDone == outcome # "running"

\* the stream holds all heightPixels * (1 + widthPixels * 4) bytes
CompleteStream == cut = 0

\* the 0-based scanlines whose filter byte is in the stream
Scanlines == {r \in 0..(heightPixels - 1) : r * widthBytes < Len(arrayBuffer)}

\* the filter byte of 0-based scanline r
FilterTypeOf(r) == arrayBuffer[r * widthBytes + 1]

ValidFilters == \A r \in Scanlines : FilterTypeOf(r) \in 0..4

\* the filtered byte x of channel j of pixel k of row r (all 1-based)
FilteredByte(r, k, j) == arrayBuffer[(r - 1) * widthBytes + 1 + (k - 1) * 4 + j]

\* channel j of the k-th pixel of row r of res (1-based), 0 outside the grid
Recon(r, k, j) == IF r >= 1 /\ k >= 1 THEN res[r][k + 1].v[j] ELSE 0

\* the reference grid in the layout of res
ReferenceGrid ==
    [r \in 1..heightPixels |-> [k \in 1..widthPixels |-> Px(reference[r][k])]]

\* C2 as stated: reconstructing the forward-filtered reference grid, with
\* any filter type in 0..4 per scanline, yields the reference grid
C2_RoundTrip ==
    (FilterDone /\ CompleteStream /\ ValidFilters)
        => (outcome = "returned" /\ res = ReferenceGrid)

\* C5 as stated: for a complete stream with filter bytes in 0..4 the grid
\* has heightPixels rows of exactly widthPixels elements, each a pixel of 4
\* values in 0..255; the filter byte is no element of a row
C5_GridShape ==
    (FilterDone /\ CompleteStream /\ ValidFilters)
        => /\ outcome = "returned"
           /\ Len(res) = heightPixels
           /\ \A r \in 1..Len(res) :
                 /\ Len(res[r]) = widthPixels
                 /\ \A k \in 1..Len(res[r]) :
                       /\ res[r][k].isPixel
                       /\ Len(res[r][k].v) = 4
                       /\ \A j \in 1..4 : res[r][k].v[j] \in 0..255

C8_Truncated == (FilterDone /\ ~CompleteStream) => outcome = "threw"

\* C9 as stated: in a Paeth scanline every reconstructed byte is
\* (x + PaethPredictor(a, b, c)) mod 256 on the channel's own a, b, c
C9_PaethPerByte ==
    (outcome = "returned" /\ CompleteStream)
        => \A r \in 1..heightPixels :
              FilterTypeOf(r - 1) = 4 =>
                  \A k \in 1..widthPixels, j \in 1..4 :
                      Recon(r, k, j) =
                          (FilteredByte(r, k, j)
                           + PaethPredictor(Recon(r, k - 1, j),
                                            Recon(r - 1, k, j),
                                            Recon(r - 1, k - 1, j))) % 256

\* the number of pixel arrays in a row of res
PixelsIn(line) == Cardinality({k \in 1..Len(line) : line[k].isPixel})

\* C10 as stated: Up and Paeth in the first row take the bytes above as 0,
\* Sub, Average and Paeth at the first pixel of a row take the bytes to the
\* left as 0, and each such scanline yields exactly widthPixels pixels
C10_BoundaryZeroFill ==
    (FilterDone /\ CompleteStream /\ ValidFilters)
        => /\ outcome = "returned"
           /\ \A j \in 1..4, k \in 1..widthPixels :
                 FilterTypeOf(0) \in {2, 4} =>
                     /\ PixelsIn(res[1]) = widthPixels
                     /\ Recon(1, k, j) =
                            (FilteredByte(1, k, j)
                             + Predict(FilterTypeOf(0), Recon(1, k - 1, j), 0, 0)) % 256
           /\ \A j \in 1..4, r \in 1..heightPixels :
                 FilterTypeOf(r - 1) \in {1, 3, 4} =>
                     /\ PixelsIn(res[r]) = widthPixels
                     /\ Recon(r, 1, j) =
                            (FilteredByte(r, 1, j)
                             + Predict(FilterTypeOf(r - 1), 0, Recon(r - 1, 1, j), 0)) % 256

----------------------------------------------------------------------------
(* Claims about subimage, checked under SpecTiles *)

TilesDone == outcome # "running"

\* the margins of the call: { 0, 0 } when the argument is omitted
MarginX == IF margins.x = Undefined THEN 0 ELSE margins.x
MarginY == IF margins.y = Undefined THEN 0 ELSE margins.y

\* tile size > 0, margins >= 0 or omitted, separation >= 0, a 4-channel
\* ignoredColour
ValidTileArguments ==
    /\ tileSize.x > 0 /\ tileSize.y > 0
    /\ MarginX >= 0 /\ MarginY >= 0
    /\ separation >= 0
    /\ Len(options.ignoredColour) = 4

TileRows == (Len(imageDataBuffer) - MarginY) \div (tileSize.y + separation)
TileCols == (Len(imageDataBuffer[1]) - MarginX) \div (tileSize.x + separation)

\* the grid pixel under pixel (r, c) of the tile at tile row tr, tile column
\* tc (tr, tc 0-based; r, c 1-based)
SourcePixel(tr, tc, r, c) ==
    imageDataBuffer[MarginY + tr * (tileSize.y + separation) + r]
                   [MarginX + tc * (tileSize.x + separation) + c]

\* C3 as stated: for valid arguments the call returns a list of exactly
\* TileRows * TileCols tiles, the tile at index tr * TileCols + tc being the
\* tileSize.y by tileSize.x block at its lattice position (pixels of the
\* ignored colour aside)
C3_TileList ==
    (TilesDone /\ ValidTileArguments)
        => /\ outcome = "returned"
           /\ returnValue.defined
           /\ Len(returnValue.tiles) = TileRows * TileCols
           /\ \A tr \in 0..(TileRows - 1), tc \in 0..(TileCols - 1) :
                 LET t == returnValue.tiles[tr * TileCols + tc + 1]
                 IN /\ Len(t) = tileSize.y
                    /\ \A r \in 1..tileSize.y :
                          /\ Len(t[r]) = tileSize.x
                          /\ \A c \in 1..tileSize.x :
                                SourcePixel(tr, tc, r, c) # options.ignoredColour
                                    => t[r][c] = SourcePixel(tr, tc, r, c)

\* C4 as stated, on the tiles the call builds: a tile pixel is (0,0,0,0)
\* where the grid pixel equals ignoredColour and the grid pixel elsewhere
C4_IgnoredColourMasked ==
    ValidTileArguments =>
        \A t \in 1..Len(tileset) :
            \A r \in 1..Len(tileset[t]) : \A c \in 1..Len(tileset[t][r]) :
                LET src == SourcePixel((t - 1) \div TileCols, (t - 1) % TileCols, r, c)
                IN tileset[t][r][c] =
                       IF src = options.ignoredColour THEN Zero4 ELSE src

====
